---- MODULE Spec2Model ----
(***************************************************************************)
(* Model of system_check.py: the SystemCheck class and the main block that *)
(* calls its five check_* methods in order.  The operating-system queries  *)
(* (platform, getpass, psutil) are the environment: every call returns a   *)
(* value drawn from a small sample set, or raises.  Standard output is the *)
(* sequence `out` of printed lines; print reaches it through the writes of *)
(* sys.stdout, and a write can raise: a print that raises inside the try   *)
(* statement of check_disk_usage is handled like a failed query.           *)
(*                                                                         *)
(* A Python float is modelled as a reduced fraction [num, den] and the     *)
(* sign err of (the double - num/den).  All byte counts of the model are   *)
(* multiples of BlockSize and stay far below 2^53, so the divisions by     *)
(* 1024**2 and 1024**3 and the subtractions are exact in IEEE doubles      *)
(* (err = 0).  (used / total) * 100 rounds twice; its rounding direction   *)
(* is computed bit by bit from the 53-bit significand, and decides the     *)
(* comparisons and the two-decimal formatting where the fraction alone is  *)
(* a tie.                                                                  *)
(***************************************************************************)
EXTENDS Integers, Sequences, FiniteSets, TLC

\* ------------------------------------------------------------------ bounds
\* Byte counts and CPU readings are sampled up to this many steps on either
\* side of each warning threshold.
MaxDelta == 1
\* A write to standard output that raises is one of the first MaxFailAt
\* writes of a call.
MaxFailAt == 3

\* Byte counts are counted in blocks of BlockSize bytes (256 KiB).
BlockSize == 2^18

\* ------------------------------------------------------- program constants
\* 1024 ** 3 bytes (lines 47, 48) and 1024 ** 2 bytes (lines 93, 94, 113,
\* 114), in blocks.
GiB == (1024 * 1024 * 1024) \div BlockSize
MiB == (1024 * 1024) \div BlockSize
\* `percentage_used > 80`, `cpu_usage > 80`, `free < 500`.
DiskWarnPct == 80
CpuWarnPct == 80
MemWarnMB == 500

\* ------------------------------------------------------------------ floats
RECURSIVE GCD(_, _)
GCD(a, b) == IF b = 0 THEN a ELSE GCD(b, a % b)

\* The fraction n/d (d > 0, n >= 0) in lowest terms.
Frac(n, d) == LET g == GCD(n, d) IN [num |-> n \div g, den |-> d \div g, err |-> 0]

FromInt(n) == [num |-> n, den |-> 1, err |-> 0]

\* a / b for b # 0 as an exact fraction, cancelling before multiplying.
FDiv(a, b) ==
    LET g1 == GCD(a.num, b.num)
        g2 == GCD(b.den, a.den)
        h1 == IF g1 = 0 THEN 1 ELSE g1
    IN  Frac((a.num \div h1) * (b.den \div g2), (a.den \div g2) * (b.num \div h1))

\* a - b for a >= b.
FSub(a, b) ==
    LET g == GCD(a.den, b.den)
    IN  Frac(a.num * (b.den \div g) - b.num * (a.den \div g), (a.den \div g) * b.den)

FGt(a, n) == a.num > n * a.den \/ (a.num = n * a.den /\ a.err > 0)
FLt(a, n) == a.num < n * a.den \/ (a.num = n * a.den /\ a.err < 0)
FIsZero(a) == a.num = 0

\* The significand of a double: a leading 1 and 52 more bits, kept here as
\* limbs of these widths (the last limb is the low 8 bits).
Limbs == << 10, 10, 10, 10, 4, 8 >>

\* Long division: the limbs of widths ws that follow in r / t (r < t), and
\* the remainder after them.
RECURSIVE DivLimbs(_, _, _)
DivLimbs(r, t, ws) ==
    IF ws = << >> THEN [limbs |-> << >>, rem |-> r]
    ELSE LET x    == r * 2 ^ Head(ws)
             rest == DivLimbs(x % t, t, Tail(ws))
         IN  [limbs |-> << x \div t >> \o rest.limbs, rem |-> rest.rem]

\* u doubled until it reaches t (u > 0): the binary exponent is taken out.
RECURSIVE Normalise(_, _)
Normalise(u, t) == IF u >= t THEN u ELSE Normalise(2 * u, t)

\* limbs + 1; all zeros when the carry leaves the top limb.
RECURSIVE IncLimbs(_, _)
IncLimbs(ls, ws) ==
    IF ls = << >> THEN << >>
    ELSE LET n == Len(ls)
         IN  IF ls[n] + 1 < 2 ^ ws[n] THEN SubSeq(ls, 1, n - 1) \o << ls[n] + 1 >>
             ELSE IncLimbs(SubSeq(ls, 1, n - 1), SubSeq(ws, 1, n - 1)) \o << 0 >>

\* a > b for two limb strings of one layout.
RECURSIVE LimbsGt(_, _)
LimbsGt(a, b) ==
    IF a = << >> THEN FALSE
    ELSE IF Head(a) # Head(b) THEN Head(a) > Head(b)
    ELSE LimbsGt(Tail(a), Tail(b))

Sign(x) == IF x > 0 THEN 1 ELSE IF x < 0 THEN -1 ELSE 0

\* The sign of ((u / t) * 100 in doubles) - 100 u / t, for 0 <= u <= t, t > 0.
\* The quotient is rounded to 53 bits, ties to even; its product with 100
\* has 59 or 60 bits (60 when the significand exceeds 2^59 / 100, whose
\* bits are those of 32 / 25) and is rounded to 53 bits again.  d1 is the
\* first rounding error times t, d2 the second, both in units of the last
\* bit of the product.
PercentErr(u, t) ==
    IF u = 0 THEN 0
    ELSE
      LET q     == DivLimbs(Normalise(u, t) - t, t, Limbs)
          n     == Len(Limbs)
          up1   == 2 * q.rem > t \/ (2 * q.rem = t /\ q.limbs[n] % 2 = 1)
          d1    == IF up1 THEN t - q.rem ELSE -q.rem
          m     == IF up1 THEN IncLimbs(q.limbs, Limbs) ELSE q.limbs
          carry == up1 /\ q.limbs = [i \in 1..n |-> 2 ^ Limbs[i] - 1]
          long  == carry \/ LimbsGt(m, DivLimbs(32 - 25, 25, Limbs).limbs)
          j     == IF long THEN 7 ELSE 6
          p     == 100 * m[n]
          low   == p % (2 ^ j)
          kept  == (p \div (2 ^ j)) % 2
          up2   == low > 2 ^ (j - 1) \/ (low = 2 ^ (j - 1) /\ kept = 1)
          d2    == IF up2 THEN 2 ^ j - low ELSE -low
      IN  Sign(d2 * t + 100 * d1)

\* ------------------------------------------------------------- formatting
\* Round the double that lies on side err of n/d to the nearest integer,
\* ties to even (Python's float formatting rounds the exact value of the
\* double, so n/d is a tie only when the double is n/d itself).
HalfEven(n, d, err) ==
    LET q == n \div d
        r == n % d
    IN  IF 2 * r > d \/ (2 * r = d /\ (err > 0 \/ (err = 0 /\ q % 2 = 1)))
        THEN q + 1 ELSE q

\* The digit groups the ',' format option separates: 1234567 -> <<1, 234, 567>>.
RECURSIVE CommaGroups(_)
CommaGroups(n) ==
    IF n < 1000 THEN <<n>> ELSE Append(CommaGroups(n \div 1000), n % 1000)

\* x rounded to two decimals, in hundredths: the whole part, and the rest
\* rounded.
Round2(x) ==
    (x.num \div x.den) * 100 + HalfEven((x.num % x.den) * 100, x.den, x.err)

\* format(x, ',.2f'): thousands groups of the integer part and two decimals.
FmtComma2f(x) ==
    LET h == Round2(x)
    IN  [groups |-> CommaGroups(h \div 100), frac |-> h % 100]

\* format(x, '.2f'): no grouping.
Fmt2f(x) ==
    LET h == Round2(x)
    IN  [groups |-> <<h \div 100>>, frac |-> h % 100]

\* format(n, ',d').
FmtCommaD(n) == [groups |-> CommaGroups(n), frac |-> 0]

\* ---------------------------------------------------------------- strings
\* Strings the program inspects are sequences of characters.
Windows == <<"W", "i", "n", "d", "o", "w", "s">>

StartsWith(s, p) == Len(s) >= Len(p) /\ SubSeq(s, 1, Len(p)) = p

\* p in s (Python's `in` on strings).
Contains(s, p) == \E i \in 1..(Len(s) - Len(p) + 1) : SubSeq(s, i, i + Len(p) - 1) = p

\* ----------------------------------------------------------------- output
\* A printed line: the group that printed it, its literal text, the
\* formatted value interpolated into it, the number of "\n" the text itself
\* ends with, and whether the "\n" that print adds was written.
Line(g, text, val) == [grp |-> g, text |-> text, val |-> val, tail |-> 0, nl |-> TRUE]
LineNl(g, text, val) == [grp |-> g, text |-> text, val |-> val, tail |-> 1, nl |-> TRUE]
\* print(): the "\n" alone.
Blank(g) == Line(g, "", <<>>)

\* What a method call leaves behind: the lines it wrote, the exception it
\* raised ("None" when it returned), the number of the next write to
\* standard output, and whether a write raised.
Result(lines, exc, w, werr) == [lines |-> lines, exc |-> exc, w |-> w, werr |-> werr]

\* sys.stdout during one call: so.at = 0, every write succeeds; otherwise
\* write number so.at of the call raises so.exc, and so do the writes after
\* it unless so.once.
Fails(so, k) == so.at # 0 /\ (k = so.at \/ (~so.once /\ k > so.at))

\* print, for each of the lines ls in turn, from write number w on: print(x)
\* writes x and then "\n", print() writes "\n"; the first write that raises
\* ends the sequence.
RECURSIVE Emit(_, _, _)
Emit(ls, w, so) ==
    IF ls = << >> THEN Result(<< >>, "None", w, FALSE)
    ELSE
      LET l == Head(ls)
      IN  IF Fails(so, w) THEN Result(<< >>, so.exc, w + 1, TRUE)
          ELSE IF l.text = ""
          THEN [Emit(Tail(ls), w + 1, so) EXCEPT !.lines = <<l>> \o @]
          ELSE IF Fails(so, w + 1)
          THEN Result(<< [l EXCEPT !.nl = FALSE] >>, so.exc, w + 2, TRUE)
          ELSE [Emit(Tail(ls), w + 2, so) EXCEPT !.lines = <<l>> \o @]

\* ------------------------------------------------------------ SystemCheck
\* check_system_info: the four queries (lines 20-23) run before any print;
\* si.exc is what they raise ("None" when all of them return).
check_system_info(os, si, so) ==
    IF si.exc # "None" THEN Result(<< >>, si.exc, 1, FALSE)
    ELSE Emit(<< Line("system_info", "------SYSTEM INFORMATION------", <<>>),
                  Line("system_info", "OS: ", os),
                  Line("system_info", "Machine Name: ", si.machine),
                  Line("system_info", "Logged in User: ", si.user),
                  LineNl("system_info", "Boot Time: ",
                         << si.boot.day, si.boot.month, si.boot.year,
                            si.boot.hour, si.boot.minute, si.boot.second >>) >>,
               1, so)

\* A root selection that looks for "Windows" anywhere in the platform string.
DiskRoot_Contains(os) == IF Contains(os, Windows) THEN <<"C", ":">> ELSE <<"/">>

\* Lines 40-43: the root directory for the platform string.
DiskRoot(os) == IF StartsWith(os, Windows) THEN <<"C", ":">> ELSE <<"/">>

\* A free value that takes the wrong operand.
Free_Used(total, used) == used

\* Lines 49 and 95: free = total - used.
Free(total, used) == FSub(total, used)

\* Lines 50 and 96: (used / total) * 100, for total # 0: the fraction
\* 100 used / total and the side of it the double lies on.
PercentageUsed(used, total) ==
    LET q == FDiv(used, total)
        g == GCD(100, q.den)
    IN  [num |-> q.num * (100 \div g), den |-> q.den \div g,
         err |-> PercentErr(q.num, q.den)]

\* Threshold comparisons that include the threshold itself.
DiskWarning_Inclusive(percentage_used) == ~FLt(percentage_used, DiskWarnPct)
CpuWarning_Inclusive(cpu_usage) == ~FLt(cpu_usage, CpuWarnPct)

\* Line 61.
DiskWarning(percentage_used) == FGt(percentage_used, DiskWarnPct)

\* Line 84.
CpuWarning(cpu_usage) == FGt(cpu_usage, CpuWarnPct)

\* Line 106.
MemoryWarning(free) == FLt(free, MemWarnMB)

\* Exception classes the clause `except OSError` catches: OSError and every
\* built-in subclass of it.
OSErrors ==
    { "OSError", "BlockingIOError", "ChildProcessError", "ConnectionError",
      "BrokenPipeError", "ConnectionAbortedError", "ConnectionRefusedError",
      "ConnectionResetError", "FileExistsError", "FileNotFoundError",
      "InterruptedError", "IsADirectoryError", "NotADirectoryError",
      "PermissionError", "ProcessLookupError", "TimeoutError" }

\* The body of the try statement of check_disk_usage (lines 46-63).  du is
\* what psutil.disk_usage(disk) does: raise du.exc, or return du.total and
\* du.used.  The prints (lines 53-63) follow the computations, and each of
\* their writes can raise.
DiskTry(disk, du, so) ==
    IF du.exc # "None" THEN Result(<< >>, du.exc, 1, FALSE)
    ELSE
      LET total == FDiv(FromInt(du.total), FromInt(GiB))
          used  == FDiv(FromInt(du.used), FromInt(GiB))
          free  == Free(total, used)
      IN  IF FIsZero(total) THEN Result(<< >>, "ZeroDivisionError", 1, FALSE)
          ELSE
            LET percentage_used == PercentageUsed(used, total)
            IN  Emit(
                  << Line("disk", "----------DISK USAGE----------", <<>>),
                     Line("disk", "Disk: ", <<disk[1]>>),
                     Line("disk", "Total: ", FmtComma2f(total)),
                     Line("disk", "Used : ", FmtComma2f(used)),
                     Line("disk", "Free: ", FmtComma2f(free)),
                     Line("disk", "% Disk used: ", Fmt2f(percentage_used)) >>
                  \o (IF DiskWarning(percentage_used)
                      THEN << Line("disk", "Warning: Available disk space is less than 20%.", <<>>) >>
                      ELSE << >>)
                  \o << Blank("disk") >>,
                  1, so)

\* check_disk_usage without its except clause.
check_disk_usage_Uncaught(os, du, so) == DiskTry(DiskRoot(os), du, so)

\* check_disk_usage (lines 34-66): the try body, and the handler of OSError,
\* whose own print is outside the try: an exception it raises leaves the
\* method.
check_disk_usage(os, du, so) ==
    LET disk == DiskRoot(os)
        body == DiskTry(disk, du, so)
        hdl  == Emit(<< Line("disk", " does not exist.", disk) >>, body.w, so)
    IN  IF body.exc \in OSErrors
        THEN Result(body.lines \o hdl.lines, hdl.exc, hdl.w, body.werr \/ hdl.werr)
        ELSE body

\* check_cpu_usage (lines 68-86).  cs.freq_none: psutil.cpu_freq() returned
\* None, and `.current` raises AttributeError before anything else runs.
check_cpu_usage(cs, so) ==
    IF cs.freq_none THEN Result(<< >>, "AttributeError", 1, FALSE)
    ELSE
      LET cpu_frequency == FromInt(cs.freq)
          cpu_usage     == Frac(cs.usage, 10)
          cpu_cores     == cs.cores
      IN  Emit(
            << Line("cpu", "-----------CPU USAGE-----------", <<>>),
               Line("cpu", "CPU Frequency: ", cpu_frequency),
               Line("cpu", "Physical Cores: ", cpu_cores),
               Line("cpu", "CPU Usage: ", cpu_usage) >>
            \o (IF CpuWarning(cpu_usage)
                THEN << Line("cpu", "Warning: CPU Usage exceeds 80%", <<>>) >>
                ELSE << >>)
            \o << Blank("cpu") >>,
            1, so)

\* check_memory_usage (lines 88-108).
check_memory_usage(ms, so) ==
    LET total == FDiv(FromInt(ms.total), FromInt(MiB))
        used  == FDiv(FromInt(ms.used), FromInt(MiB))
        free  == Free(total, used)
    IN  IF FIsZero(total) THEN Result(<< >>, "ZeroDivisionError", 1, FALSE)
        ELSE
          LET percentage_used == PercentageUsed(used, total)
          IN  Emit(
                << Line("memory", "---------MEMORY USAGE---------", <<>>),
                   Line("memory", "Total: ", FmtComma2f(total)),
                   Line("memory", "Used: ", FmtComma2f(used)),
                   Line("memory", "Free: ", FmtComma2f(free)),
                   Line("memory", "% Memory used: ", Fmt2f(percentage_used)) >>
                \o (IF MemoryWarning(free)
                    THEN << Line("memory", "Warning: Available memory is less than 500MB", <<>>) >>
                    ELSE << >>)
                \o << Blank("memory") >>,
                1, so)

\* check_network_usage with the two packet counters exchanged.
check_network_usage_Swapped(ns, so) ==
    IF ns.none THEN Result(<< >>, "AttributeError", 1, FALSE)
    ELSE
      Emit(
        << Line("network", "---------NETWORK USAGE---------", <<>>),
           Line("network", "MB sent: ", FmtComma2f(FDiv(FromInt(ns.bytes_sent), FromInt(MiB)))),
           LineNl("network", "MB received: ", FmtComma2f(FDiv(FromInt(ns.bytes_recv), FromInt(MiB)))),
           Line("network", "Packets sent: ", FmtCommaD(ns.packets_recv)),
           LineNl("network", "Packets received: ", FmtCommaD(ns.packets_sent)) >>,
        1, so)

\* check_network_usage (lines 110-123).  ns.none: psutil.net_io_counters()
\* returned None (no interface), and `.bytes_sent` raises AttributeError.
check_network_usage(ns, so) ==
    IF ns.none THEN Result(<< >>, "AttributeError", 1, FALSE)
    ELSE
      LET mb_sent          == FDiv(FromInt(ns.bytes_sent), FromInt(MiB))
          mb_received      == FDiv(FromInt(ns.bytes_recv), FromInt(MiB))
          packets_sent     == ns.packets_sent
          packets_received == ns.packets_recv
      IN  Emit(
            << Line("network", "---------NETWORK USAGE---------", <<>>),
               Line("network", "MB sent: ", FmtComma2f(mb_sent)),
               LineNl("network", "MB received: ", FmtComma2f(mb_received)),
               Line("network", "Packets sent: ", FmtCommaD(packets_sent)),
               LineNl("network", "Packets received: ", FmtCommaD(packets_received)) >>,
            1, so)

\* ------------------------------------------------------------ environment
\* Platform strings platform.platform() returns: "Windows" alone, at the
\* start, after the start, and absent.
Linux == <<"L", "i", "n", "u", "x", "-">>
Platforms == { Windows, Windows \o Linux, Linux \o Windows, Linux }

\* What the queries of check_system_info return or raise (getpass.getuser
\* raises when no user name can be found).
InfoSamples ==
    { [exc |-> e, machine |-> "host", user |-> "user",
       boot |-> [day |-> 5, month |-> 3, year |-> 2024,
                 hour |-> 9, minute |-> 7, second |-> 0]] : e \in {"None", "KeyError"} }

\* psutil.disk_usage(disk): byte counts in blocks, 0 <= used <= total, sampled
\* around 80 % used and at one block used; or the path cannot be queried.
DiskTotals == {0, 20000, 100 * GiB}
DiskUseds(t) ==
    { u \in {1, t, (t * 17) \div 20} \cup { (t * 4) \div 5 + d : d \in -MaxDelta..MaxDelta } :
        0 <= u /\ u <= t }
DiskSamples ==
    UNION { { [exc |-> "None", total |-> t, used |-> u] : u \in DiskUseds(t) } : t \in DiskTotals }
    \cup { [exc |-> e, total |-> 0, used |-> 0] : e \in {"FileNotFoundError", "NotADirectoryError"} }

\* psutil.cpu_freq(), psutil.cpu_percent(1) in tenths of a percent,
\* psutil.cpu_count(logical=False).
CpuUsages == {1000} \cup { CpuWarnPct * 10 + d : d \in -MaxDelta..MaxDelta }
CpuSamples ==
    { [freq_none |-> FALSE, freq |-> 2400, usage |-> u, cores |-> 4] : u \in CpuUsages }
    \cup { [freq_none |-> TRUE, freq |-> 0, usage |-> 0, cores |-> 0] }

\* psutil.virtual_memory(): byte counts in blocks, sampled around 500 MiB free.
MemTotals == {0, 1024 * MiB}
MemUseds(t) ==
    { u \in {0, t, 600 * MiB} \cup { t - MemWarnMB * MiB + d : d \in -MaxDelta..MaxDelta } :
        0 <= u /\ u <= t }
MemSamples == UNION { { [total |-> t, used |-> u] : u \in MemUseds(t) } : t \in MemTotals }

\* psutil.net_io_counters(): cumulative counters, or None.
NetCounters ==
    { <<0, 0, 1000, 999>>, <<6 * MiB + 1, 2000 * MiB, 1234567, 0>> }
NetSamples ==
    { [none |-> FALSE, bytes_sent |-> c[1], bytes_recv |-> c[2],
       packets_sent |-> c[3], packets_recv |-> c[4]] : c \in NetCounters }
    \cup { [none |-> TRUE, bytes_sent |-> 0, bytes_recv |-> 0,
            packets_sent |-> 0, packets_recv |-> 0] }

\* sys.stdout during one call: every write succeeds, or one of the first
\* MaxFailAt writes raises: once (the device was busy), or from then on (the
\* pipe was closed by its reader; the file object was closed).
NoFail == [at |-> 0, once |-> TRUE, exc |-> "None"]
StdoutPlans ==
    { NoFail } \cup
    { [at |-> k, once |-> f[1], exc |-> f[2]] :
        k \in 1..MaxFailAt,
        f \in { <<TRUE, "BlockingIOError">>, <<FALSE, "BrokenPipeError">>,
                <<FALSE, "ValueError">> } }

\* ------------------------------------------------------------------ state
VARIABLES
    pc,       \* the call of the main block that runs next; "done"; "traceback"
    os,       \* self.os
    out,      \* standard output: the lines printed so far
    raised,   \* the uncaught exception that ended the process, or "None"
    ran,      \* the methods that were called and returned
    wfail,    \* the methods during which a write to standard output raised
    info_in,  \* what the queries of check_system_info did
    disk_in,  \* what psutil.disk_usage did
    cpu_in,   \* what the CPU queries did
    mem_in,   \* what psutil.virtual_memory returned
    net_in    \* what psutil.net_io_counters returned

vars == << pc, os, out, raised, ran, wfail, info_in, disk_in, cpu_in, mem_in, net_in >>

Groups == << "system_info", "disk", "cpu", "memory", "network" >>

\* A query that was not made yet.
NotAsked == [asked |-> FALSE]
Asked(x) == "asked" \notin DOMAIN x

\* Line 128: SystemCheck() stores platform.platform().
Init ==
    /\ os \in Platforms
    /\ pc = "system_info"
    /\ out = << >>
    /\ raised = "None"
    /\ ran = {}
    /\ wfail = {}
    /\ info_in = NotAsked
    /\ disk_in = NotAsked
    /\ cpu_in = NotAsked
    /\ mem_in = NotAsked
    /\ net_in = NotAsked

\* One call of the main block: the method's output is appended; when the
\* method raises, the exception leaves the main block and the interpreter
\* ends with a traceback, and no later call is made.
Call(g, res, next) ==
    /\ pc = g
    /\ out' = out \o res.lines
    /\ IF res.exc = "None"
       THEN pc' = next /\ ran' = ran \cup {g} /\ raised' = raised
       ELSE pc' = "traceback" /\ ran' = ran /\ raised' = res.exc
    /\ wfail' = (IF res.werr THEN wfail \cup {g} ELSE wfail)
    /\ os' = os

\* Line 129.
SystemInfo ==
    \E si \in InfoSamples, so \in StdoutPlans :
        /\ Call("system_info", check_system_info(os, si, so), "disk")
        /\ info_in' = si
        /\ UNCHANGED << disk_in, cpu_in, mem_in, net_in >>

\* Line 130.
Disk ==
    \E du \in DiskSamples, so \in StdoutPlans :
        /\ Call("disk", check_disk_usage(os, du, so), "cpu")
        /\ disk_in' = du
        /\ UNCHANGED << info_in, cpu_in, mem_in, net_in >>

\* Line 131.
Cpu ==
    \E cs \in CpuSamples, so \in StdoutPlans :
        /\ Call("cpu", check_cpu_usage(cs, so), "memory")
        /\ cpu_in' = cs
        /\ UNCHANGED << info_in, disk_in, mem_in, net_in >>

\* Line 132.
Memory ==
    \E ms \in MemSamples, so \in StdoutPlans :
        /\ Call("memory", check_memory_usage(ms, so), "network")
        /\ mem_in' = ms
        /\ UNCHANGED << info_in, disk_in, cpu_in, net_in >>

\* Line 133.
Network ==
    \E ns \in NetSamples, so \in StdoutPlans :
        /\ Call("network", check_network_usage(ns, so), "done")
        /\ net_in' = ns
        /\ UNCHANGED << info_in, disk_in, cpu_in, mem_in >>

Next == SystemInfo \/ Disk \/ Cpu \/ Memory \/ Network

Spec == Init /\ [][Next]_vars

\* ---------------------------------------------------------- observations
\* The lines a group printed, and their literal texts.
LinesOf(g) == SelectSeq(out, LAMBDA l : l.grp = g)
TextsOf(g) == [i \in 1..Len(LinesOf(g)) |-> LinesOf(g)[i].text]
HasText(g, t) == \E i \in 1..Len(out) : out[i].grp = g /\ out[i].text = t

\* The number a grouped integer stands for: <<1, 234, 567>> -> 1234567.
RECURSIVE Ungroup(_)
Ungroup(gs) ==
    IF gs = <<>> THEN 0 ELSE Ungroup(SubSeq(gs, 1, Len(gs) - 1)) * 1000 + gs[Len(gs)]

\* A printed two-decimal number, in hundredths.
Hundredths(v) == Ungroup(v.groups) * 100 + v.frac

DiskWarningText == "Warning: Available disk space is less than 20%."
CpuWarningText == "Warning: CPU Usage exceeds 80%"
MemoryWarningText == "Warning: Available memory is less than 500MB"

\* No write of group g to standard output raised.
WritesOk(g) == g \notin wfail

\* The process has ended, normally or with a traceback.
Halted == pc \in {"done", "traceback"}

\* The query of group g was made and failed, or returned a zero total.
DiskSampled == Asked(disk_in) /\ disk_in.exc = "None"
Failed(g) ==
    CASE g = "system_info" -> Asked(info_in) /\ info_in.exc # "None"
      [] g = "disk"        -> Asked(disk_in) /\ (disk_in.exc # "None" \/ disk_in.total = 0)
      [] g = "cpu"         -> Asked(cpu_in) /\ cpu_in.freq_none
      [] g = "memory"      -> Asked(mem_in) /\ mem_in.total = 0
      [] g = "network"     -> Asked(net_in) /\ net_in.none

\* ----------------------------------------------------------------- claims
\* C1: a failure in one group never prevents the groups after it from being
\* executed and producing their output: once the process has ended with
\* every write to standard output having succeeded, every group after a
\* failed one has run.
C1_FailureIsolated ==
    \A i \in 1..Len(Groups) :
        (Failed(Groups[i]) /\ Halted /\ wfail = {}) =>
            \A j \in (i + 1)..Len(Groups) : Groups[j] \in ran

\* C2: for a disk sample with total > 0 and 0 <= used <= total, the disk
\* warning is printed only if used / total * 100 > 80, and, when no write of
\* the group to standard output raised, if and only if it is.
C2_DiskWarningIffOver80 ==
    (DiskSampled /\ disk_in.total > 0) =>
        /\ HasText("disk", DiskWarningText) =>
              disk_in.used * 100 > DiskWarnPct * disk_in.total
        /\ WritesOk("disk") =>
              (HasText("disk", DiskWarningText) <=>
                  disk_in.used * 100 > DiskWarnPct * disk_in.total)

\* C2 witness: total = 100 GiB, used = 80 GiB was reported, without a warning.
C2_AtEightyPercent ==
    /\ DiskSampled /\ "disk" \in ran /\ WritesOk("disk")
    /\ disk_in.total = 100 * GiB /\ disk_in.used = 80 * GiB
    /\ HasText("disk", "% Disk used: ")
    /\ ~HasText("disk", DiskWarningText)

\* C3: for a memory sample with 0 <= used <= total, when no write of the
\* group to standard output raised, the memory warning is printed if and
\* only if total - used < 500 MiB.
C3_MemoryWarningIffUnder500 ==
    (Asked(mem_in) /\ WritesOk("memory")) =>
        (HasText("memory", MemoryWarningText) <=> mem_in.total - mem_in.used < MemWarnMB * MiB)

\* The same for samples with total > 0 (the part of C3 the code keeps).
MemoryWarningIffUnder500_PositiveTotal ==
    (Asked(mem_in) /\ WritesOk("memory") /\ mem_in.total > 0) =>
        (HasText("memory", MemoryWarningText) <=> mem_in.total - mem_in.used < MemWarnMB * MiB)

\* C4: for a CPU reading in [0, 100], the CPU warning is printed only if the
\* reading is strictly greater than 80, and, when no write of the group to
\* standard output raised, if and only if it is.
C4_CpuWarningIffOver80 ==
    (Asked(cpu_in) /\ ~cpu_in.freq_none) =>
        /\ HasText("cpu", CpuWarningText) => cpu_in.usage > CpuWarnPct * 10
        /\ WritesOk("cpu") =>
              (HasText("cpu", CpuWarningText) <=> cpu_in.usage > CpuWarnPct * 10)

\* C4 witness: a reading of exactly 80.0 was reported, without a warning.
C4_AtEightyPercent ==
    /\ "cpu" \in ran /\ WritesOk("cpu") /\ cpu_in.usage = CpuWarnPct * 10
    /\ HasText("cpu", "CPU Usage: ")
    /\ ~HasText("cpu", CpuWarningText)

\* The lines in which check_disk_usage showed the root: the `Disk:` line has
\* its first character, the notice the whole of it.
RootLines ==
    { i \in 1..Len(LinesOf("disk")) : LinesOf("disk")[i].text \in {"Disk: ", " does not exist."} }

\* C5 as stated: the disk root is 'C:' if the platform string contains
\* "Windows", and '/' for any other platform string.
C5_RootByContains ==
    \A i \in RootLines : LinesOf("disk")[i].val[1] = "C" <=> Contains(os, Windows)

\* C5 as amended: the disk root is 'C:' if the platform string starts with
\* "Windows", and '/' for any other platform string; a call that returns
\* has shown it.
C5_RootByPrefix ==
    /\ "disk" \in ran => RootLines # {}
    /\ \A i \in RootLines :
          LET l == LinesOf("disk")[i]
          IN  /\ l.val[1] = "C" <=> StartsWith(os, Windows)
              /\ l.val[1] = "/" <=> ~StartsWith(os, Windows)
              /\ l.text = " does not exist." =>
                    l.val = (IF StartsWith(os, Windows) THEN <<"C", ":">> ELSE <<"/">>)

\* C5 witness: "Windows" inside the platform string but not at its start,
\* and the root shown is '/'.
C5_WindowsNotAtStart ==
    /\ "disk" \in ran
    /\ Contains(os, Windows) /\ ~StartsWith(os, Windows)
    /\ \E i \in RootLines : LinesOf("disk")[i].val[1] = "/"

\* C6: a disk or memory sample with total = 0 makes the group report its
\* percentage (as undefined) and return, so that the run continues, when
\* every write of the group to standard output succeeds.
C6_ZeroTotalReported ==
    /\ (DiskSampled /\ disk_in.total = 0 /\ WritesOk("disk")) =>
          ("disk" \in ran /\ HasText("disk", "% Disk used: "))
    /\ (Asked(mem_in) /\ mem_in.total = 0 /\ WritesOk("memory")) =>
          ("memory" \in ran /\ HasText("memory", "% Memory used: "))

\* C7: when psutil.disk_usage raises an OS error and every write to standard
\* output succeeds, check_disk_usage returns with the notice as the disk
\* group's only output and the CPU group is entered; and when the queries of
\* the CPU, memory and network groups succeed, the process ends normally
\* with the output of all three.
C7_DiskErrorContained ==
    (Asked(disk_in) /\ disk_in.exc \in OSErrors /\ wfail = {}) =>
        /\ "disk" \in ran
        /\ TextsOf("disk") = << " does not exist." >>
        /\ pc = "cpu" \/ Asked(cpu_in)
        /\ (Halted /\ ~Failed("cpu") /\ ~Failed("memory") /\ ~Failed("network")) =>
              /\ pc = "done" /\ raised = "None"
              /\ {"cpu", "memory", "network"} \subseteq ran
              /\ HasText("cpu", "-----------CPU USAGE-----------")
              /\ HasText("memory", "---------MEMORY USAGE---------")
              /\ HasText("network", "---------NETWORK USAGE---------")

\* C7 witness: the disk root was missing and the run completed.
C7_MissingRootRunDone ==
    /\ Asked(disk_in) /\ disk_in.exc = "FileNotFoundError"
    /\ wfail = {}
    /\ pc = "done"
    /\ HasText("network", "Packets received: ")

\* The lines of group g with the literal text t.
LinesWith(g, t) == { i \in 1..Len(LinesOf(g)) : LinesOf(g)[i].text = t }

\* C8: for disk and memory samples with 0 <= used <= total, a free value
\* that is reported is total - used, and a percentage that is reported lies
\* in [0, 100]; a group that returns without a write having raised has
\* reported both.
C8_FreeAndPercent ==
    /\ DiskSampled =>
          /\ \A i \in LinesWith("disk", "Free: ") :
                LinesOf("disk")[i].val = FmtComma2f(Frac(disk_in.total - disk_in.used, GiB))
          /\ \A i \in LinesWith("disk", "% Disk used: ") :
                Hundredths(LinesOf("disk")[i].val) \in 0..10000
          /\ ("disk" \in ran /\ WritesOk("disk")) =>
                LinesWith("disk", "Free: ") # {} /\ LinesWith("disk", "% Disk used: ") # {}
    /\ Asked(mem_in) =>
          /\ \A i \in LinesWith("memory", "Free: ") :
                LinesOf("memory")[i].val = FmtComma2f(Frac(mem_in.total - mem_in.used, MiB))
          /\ \A i \in LinesWith("memory", "% Memory used: ") :
                Hundredths(LinesOf("memory")[i].val) \in 0..10000
          /\ ("memory" \in ran /\ WritesOk("memory")) =>
                LinesWith("memory", "Free: ") # {} /\ LinesWith("memory", "% Memory used: ") # {}

\* C8 witness: a disk with 85 of 100 GiB used and a memory with 600 of 1024
\* MiB used were both reported.
C8_BothReported ==
    /\ DiskSampled /\ "disk" \in ran /\ disk_in.total = 100 * GiB /\ disk_in.used = 85 * GiB
    /\ Asked(mem_in) /\ "memory" \in ran /\ mem_in.total = 1024 * MiB /\ mem_in.used = 600 * MiB
    /\ \E i \in LinesWith("disk", "Free: ") :
          LinesOf("disk")[i].val = [groups |-> <<15>>, frac |-> 0]
    /\ \E i \in LinesWith("memory", "Free: ") :
          LinesOf("memory")[i].val = [groups |-> <<424>>, frac |-> 0]

\* The texts check_network_usage prints, in order.
NetworkTexts ==
    << "---------NETWORK USAGE---------", "MB sent: ", "MB received: ",
       "Packets sent: ", "Packets received: " >>

\* C9: check_network_usage prints no warning and no percentage, whatever the
\* counters are, and the packet counters it prints are the ones it read;
\* when no write to standard output raises it prints all of its lines.
C9_NetworkAsIs ==
    (Asked(net_in) /\ ~net_in.none) =>
        /\ Len(LinesOf("network")) <= Len(NetworkTexts)
        /\ \A i \in 1..Len(LinesOf("network")) : TextsOf("network")[i] = NetworkTexts[i]
        /\ \A i \in LinesWith("network", "Packets sent: ") :
              Ungroup(LinesOf("network")[i].val.groups) = net_in.packets_sent
        /\ \A i \in LinesWith("network", "Packets received: ") :
              Ungroup(LinesOf("network")[i].val.groups) = net_in.packets_recv
        /\ WritesOk("network") => TextsOf("network") = NetworkTexts

\* C9 witness: counters in the millions were reported.
C9_LargeCounters ==
    /\ "network" \in ran /\ WritesOk("network")
    /\ net_in.packets_sent = 1234567 /\ net_in.bytes_recv = 2000 * MiB
    /\ \E i \in LinesWith("network", "Packets sent: ") :
          LinesOf("network")[i].val.groups = <<1, 234, 567>>

\* The texts of the full disk block, with or without the warning.
DiskBlockTexts(warn) ==
    << "----------DISK USAGE----------", "Disk: ", "Total: ", "Used : ", "Free: ",
       "% Disk used: " >>
    \o (IF warn THEN << DiskWarningText >> ELSE << >>) \o << "" >>

\* C10: in every run of check_disk_usage the disk group prints either its
\* full block (with the warning only when it applies) or exactly one line
\* naming the selected root; a partial block followed by the notice is never
\* produced.
C10_DiskAllOrNothing ==
    (Asked(disk_in) /\ pc # "disk") =>
        \/ /\ DiskSampled
           /\ TextsOf("disk") =
                 DiskBlockTexts(disk_in.used * 100 > DiskWarnPct * disk_in.total)
        \/ /\ TextsOf("disk") = << " does not exist." >>
           /\ LinesOf("disk")[1].val = DiskRoot(os)
====
